---------------------------- MODULE Spec2Model ----------------------------
(***************************************************************************)
(* Model of the build/install helper scripts of tuner:                     *)
(*   meson/post_install.py  - compiles the gsettings schemas and refreshes *)
(*                            the icon cache after an unstaged install;    *)
(*   data/convert.py        - turns world.csv into map[...] = _(...) lines.*)
(*                                                                         *)
(* A behaviour is one run of one of the two scripts.  Strings are modelled *)
(* as sequences of one-character strings so that os.path.join, str.upper   *)
(* and the f-string are computed, not assumed.  The character U+2026 of    *)
(* the second progress message is written "U+2026".  print is taken to     *)
(* succeed (stdout is writable and can encode the text).                   *)
(***************************************************************************)
EXTENDS Integers, Sequences, FiniteSets

VARIABLES script, environ, path, csvfile, pc, exc,
          install_prefix, schemadir, datadir,
          running, returncode, countries, row, events

vars == <<script, environ, path, csvfile, pc, exc,
          install_prefix, schemadir, datadir,
          running, returncode, countries, row, events>>

(***************************************************************************)
(* Bounds of the model.                                                    *)
(***************************************************************************)
MaxRows == 3
MaxFields == 3
MaxExit == 1

(***************************************************************************)
(* Values standing for Python's None / "no such thing".                    *)
(***************************************************************************)
None == <<"None">>
NoStatus == -1

(***************************************************************************)
(* String literals of the two scripts.                                     *)
(***************************************************************************)
sep == "/"

MESON_INSTALL_PREFIX == "MESON_INSTALL_PREFIX"

DESTDIR == "DESTDIR"

SchemasRel == <<"s","h","a","r","e","/","g","l","i","b","-","2",".","0",
                "/","s","c","h","e","m","a","s">>

ShareRel == <<"s","h","a","r","e">>

IconsRel == <<"i","c","o","n","s">>

HicolorRel == <<"h","i","c","o","l","o","r">>

GlibCompileSchemas == <<"g","l","i","b","-","c","o","m","p","i","l","e",
                        "-","s","c","h","e","m","a","s">>

GtkUpdateIconCache == <<"g","t","k","-","u","p","d","a","t","e","-",
                        "i","c","o","n","-","c","a","c","h","e">>

FlagQtf == <<"-","q","t","f">>

MsgSchema == <<"C","o","m","p","i","l","i","n","g"," ","t","h","e"," ",
               "g","s","e","t","t","i","n","g","s"," ","s","c","h","e","m","a",
               " ",".",".",".">>

MsgIcons == <<"U","p","d","a","t","i","n","g"," ","i","c","o","n"," ",
              "c","a","c","h","e","U+2026">>

LineHead == <<"m","a","p","[","\"">>

LineMid == <<"\"","]"," ","="," ","_","(","\"">>

LineTail == <<"\"",")",";">>

(***************************************************************************)
(* Inputs: the process environment, the search path, the CSV file.         *)
(***************************************************************************)
EnvKeys == {MESON_INSTALL_PREFIX, DESTDIR}

EnvVals == { <<>>, <<"/">>, <<"/","u","s","r">>, <<"x">> }

Environments == UNION { [D -> EnvVals] : D \in SUBSET EnvKeys }

Tools == {GlibCompileSchemas, GtkUpdateIconCache}

ExitStatuses == 0..MaxExit

FieldVals == { <<"F","r">>, <<"f","\"">> }

SeqsUpTo(S, n) == UNION { [1..k -> S] : k \in 0..n }

\* a field past index 1, which the script never reads
ExtraField == <<"x">>

\* rows as csv.reader yields them: no field, a name only, or a name, a code
\* and up to MaxFields - 2 further fields
Rows ==
    {<<>>} \cup { <<n>> : n \in FieldVals }
           \cup { <<n, c>> \o [i \in 1..k |-> ExtraField] :
                    n \in FieldVals, c \in FieldVals, k \in 0..(MaxFields - 2) }

Files == SeqsUpTo(Rows, MaxRows)

\* world.csv is not in the working directory
NoFile == [exists |-> FALSE, rows |-> <<>>]

(***************************************************************************)
(* Library functions used by the scripts.                                  *)
(***************************************************************************)
\* variant: plain string concatenation instead of a path join
Join2_Concat(p, b) == p \o b

\* posixpath.join for one more component
Join2(p, b) ==
    IF Len(b) > 0 /\ b[1] = sep THEN b
    ELSE IF Len(p) = 0 \/ p[Len(p)] = sep THEN p \o b
    ELSE p \o <<sep>> \o b

RECURSIVE JoinFrom(_, _, _)
JoinFrom(p, ps, i) ==
    IF i > Len(ps) THEN p ELSE JoinFrom(Join2(p, ps[i]), ps, i + 1)

\* os.path.join(a, *ps)
os_path_join(a, ps) == JoinFrom(a, ps, 1)

\* str.upper for one character of the alphabet of FieldVals
UpperChar(c) ==
    CASE c = "f" -> "F"
      [] c = "r" -> "R"
      [] OTHER -> c

\* str.upper
upper(s) == [i \in 1..Len(s) |-> UpperChar(s[i])]

\* truth value of os.environ.get(key): None and '' are falsy
EnvTruthy(key) == key \in DOMAIN environ /\ environ[key] # <<>>

(***************************************************************************)
(* Observable events of a run.                                             *)
(***************************************************************************)
PrintEv(text) == [kind |-> "print", text |-> text, argv |-> <<>>, status |-> NoStatus]

CallEv(argv) == [kind |-> "call", text |-> <<>>, argv |-> argv, status |-> NoStatus]

ExitEv(argv, st) == [kind |-> "exit", text |-> <<>>, argv |-> argv, status |-> st]

(***************************************************************************)
(* State after the interpreter has started one of the scripts.             *)
(***************************************************************************)
Init ==
    /\ script \in {"post_install", "convert"}
    /\ IF script = "post_install"
         THEN /\ environ \in Environments
              /\ path \in SUBSET Tools
              /\ csvfile = NoFile
              /\ pc = "6"
         ELSE /\ environ = << >>
              /\ path = {}
              /\ csvfile \in {NoFile} \cup {[exists |-> TRUE, rows |-> f] : f \in Files}
              /\ pc = "3"
    /\ exc = "None"
    /\ install_prefix = None
    /\ schemadir = None
    /\ datadir = None
    /\ running = {}
    /\ returncode = NoStatus
    /\ countries = <<>>
    /\ row = <<>>
    /\ events = <<>>

hookLocals == <<install_prefix, schemadir, datadir>>
csvLocals == <<countries, row>>
inputs == <<script, environ, path, csvfile>>

(***************************************************************************)
(* meson/post_install.py                                                   *)
(***************************************************************************)
\* variant: os.environ.get('MESON_INSTALL_PREFIX', '') instead of the subscript
ReadPrefix_Default ==
    /\ script = "post_install" /\ pc = "6"
    /\ install_prefix' = IF MESON_INSTALL_PREFIX \in DOMAIN environ
                           THEN environ[MESON_INSTALL_PREFIX] ELSE <<>>
    /\ pc' = "7"
    /\ UNCHANGED <<inputs, exc, schemadir, datadir, running, returncode, csvLocals, events>>

\* line 6: install_prefix = os.environ['MESON_INSTALL_PREFIX']
ReadPrefix ==
    /\ script = "post_install" /\ pc = "6"
    /\ IF MESON_INSTALL_PREFIX \in DOMAIN environ
         THEN /\ install_prefix' = environ[MESON_INSTALL_PREFIX]
              /\ pc' = "7"
              /\ exc' = exc
         ELSE /\ exc' = "KeyError"
              /\ pc' = "raised"
              /\ install_prefix' = install_prefix
    /\ UNCHANGED <<inputs, schemadir, datadir, running, returncode, csvLocals, events>>

\* line 7: schemadir = os.path.join(install_prefix, 'share/glib-2.0/schemas')
SetSchemadir ==
    /\ script = "post_install" /\ pc = "7"
    /\ schemadir' = os_path_join(install_prefix, <<SchemasRel>>)
    /\ pc' = "8"
    /\ UNCHANGED <<inputs, exc, install_prefix, datadir, running, returncode, csvLocals, events>>

\* line 8: datadir = os.path.join(install_prefix, 'share')
SetDatadir ==
    /\ script = "post_install" /\ pc = "8"
    /\ datadir' = os_path_join(install_prefix, <<ShareRel>>)
    /\ pc' = "10"
    /\ UNCHANGED <<inputs, exc, install_prefix, schemadir, running, returncode, csvLocals, events>>

\* variant: the test without its "not"
CheckDestdir_Inverted ==
    /\ script = "post_install" /\ pc = "10"
    /\ pc' = IF EnvTruthy(DESTDIR) THEN "11" ELSE "end"
    /\ UNCHANGED <<inputs, exc, hookLocals, running, returncode, csvLocals, events>>

\* variant: if 'DESTDIR' not in os.environ:
CheckDestdir_PresenceOnly ==
    /\ script = "post_install" /\ pc = "10"
    /\ pc' = IF DESTDIR \notin DOMAIN environ THEN "11" ELSE "end"
    /\ UNCHANGED <<inputs, exc, hookLocals, running, returncode, csvLocals, events>>

\* line 10: if not os.environ.get('DESTDIR'):
CheckDestdir ==
    /\ script = "post_install" /\ pc = "10"
    /\ pc' = IF ~EnvTruthy(DESTDIR) THEN "11" ELSE "end"
    /\ UNCHANGED <<inputs, exc, hookLocals, running, returncode, csvLocals, events>>

\* print(text) at line at, continuing at line to
print(at, to, text) ==
    /\ script = "post_install" /\ pc = at
    /\ events' = Append(events, PrintEv(text))
    /\ pc' = to
    /\ UNCHANGED <<inputs, exc, hookLocals, running, returncode, csvLocals>>

\* variant: subprocess.call(..., shell=True), where a missing program is
\* only an exit status 127 of the shell
Call_Shell(at, wait, argv) ==
    /\ script = "post_install" /\ pc = at
    /\ events' = Append(events, CallEv(argv))
    /\ IF argv[1] \in path
         THEN /\ running' = running \cup {argv}
              /\ returncode' = NoStatus
         ELSE /\ running' = running
              /\ returncode' = 127
    /\ pc' = wait
    /\ UNCHANGED <<inputs, exc, hookLocals, csvLocals>>

\* subprocess.call(argv) at line at: look the program up on the search path
\* and start it, or raise FileNotFoundError; then wait for it.
Call(at, wait, argv) ==
    /\ script = "post_install" /\ pc = at
    /\ events' = Append(events, CallEv(argv))
    /\ IF argv[1] \in path
         THEN /\ running' = running \cup {argv}
              /\ pc' = wait
              /\ exc' = exc
         ELSE /\ exc' = "FileNotFoundError"
              /\ pc' = "raised"
              /\ running' = running
    /\ returncode' = NoStatus
    /\ UNCHANGED <<inputs, hookLocals, csvLocals>>

\* the child process runs to completion with some exit status
ChildExit ==
    /\ \E argv \in running, st \in ExitStatuses :
         /\ running' = running \ {argv}
         /\ returncode' = st
         /\ events' = Append(events, ExitEv(argv, st))
    /\ UNCHANGED <<inputs, pc, exc, hookLocals, csvLocals>>

\* variant: subprocess.check_call, which raises on a non-zero exit status
Return_Checked(wait, to) ==
    /\ script = "post_install" /\ pc = wait
    /\ returncode # NoStatus
    /\ IF returncode = 0
         THEN pc' = to /\ exc' = exc
         ELSE pc' = "raised" /\ exc' = "CalledProcessError"
    /\ UNCHANGED <<inputs, hookLocals, running, returncode, csvLocals, events>>

\* variant: subprocess.Popen, which does not wait for the child
Return_NoWait(wait, to) ==
    /\ script = "post_install" /\ pc = wait
    /\ pc' = to
    /\ UNCHANGED <<inputs, exc, hookLocals, running, returncode, csvLocals, events>>

\* subprocess.call returns the exit status, which the script discards
Return(wait, to) ==
    /\ script = "post_install" /\ pc = wait
    /\ returncode # NoStatus
    /\ pc' = to
    /\ UNCHANGED <<inputs, exc, hookLocals, running, returncode, csvLocals, events>>

\* line 11
PrintSchema == print("11", "12", MsgSchema)

\* line 12
CallSchemas == Call("12", "12w", <<GlibCompileSchemas, schemadir>>)

ReturnSchemas == Return("12w", "13")

\* line 13
PrintIcons == print("13", "14", MsgIcons)

\* line 14
CallIcons ==
    Call("14", "14w", <<GtkUpdateIconCache, FlagQtf,
                 os_path_join(datadir, <<IconsRel, HicolorRel>>)>>)

ReturnIcons == Return("14w", "end")

(***************************************************************************)
(* data/convert.py                                                         *)
(***************************************************************************)
\* variant: the two subscripts exchanged
FormatLine_Swapped(r) == LineHead \o upper(r[1]) \o LineMid \o r[2] \o LineTail

\* the f-string of line 6; row[1] is subscripted first, then row[0]
FormatLine(r) == LineHead \o upper(r[2]) \o LineMid \o r[1] \o LineTail

\* line 3: with open("world.csv") as csvfile:
OpenFile ==
    /\ script = "convert" /\ pc = "3"
    /\ IF csvfile.exists
         THEN pc' = "4" /\ exc' = exc
         ELSE pc' = "raised" /\ exc' = "FileNotFoundError"
    /\ UNCHANGED <<inputs, hookLocals, running, returncode, csvLocals, events>>

\* line 4: countries = csv.reader(csvfile, delimiter=',', quotechar='"')
MakeReader ==
    /\ script = "convert" /\ pc = "4"
    /\ countries' = csvfile.rows
    /\ pc' = "5"
    /\ UNCHANGED <<inputs, exc, hookLocals, running, returncode, row, events>>

\* line 5: for row in countries:
NextRow ==
    /\ script = "convert" /\ pc = "5"
    /\ IF countries # <<>>
         THEN /\ row' = Head(countries)
              /\ countries' = Tail(countries)
              /\ pc' = "6"
         ELSE /\ pc' = "end"
              /\ UNCHANGED csvLocals
    /\ UNCHANGED <<inputs, exc, hookLocals, running, returncode, events>>

\* variant: a short row is skipped instead of raising
PrintRow_Skip ==
    /\ script = "convert" /\ pc = "6"
    /\ events' = IF Len(row) >= 2 THEN Append(events, PrintEv(FormatLine(row))) ELSE events
    /\ pc' = "5"
    /\ UNCHANGED <<inputs, exc, hookLocals, running, returncode, csvLocals>>

\* line 6: print(f'map["{row[1].upper()}"] = _("{row[0]}");')
PrintRow ==
    /\ script = "convert" /\ pc = "6"
    /\ IF Len(row) >= 2
         THEN /\ events' = Append(events, PrintEv(FormatLine(row)))
              /\ pc' = "5"
              /\ exc' = exc
         ELSE /\ exc' = "IndexError"
              /\ pc' = "raised"
              /\ events' = events
    /\ UNCHANGED <<inputs, hookLocals, running, returncode, csvLocals>>

Next ==
    \/ ReadPrefix
    \/ SetSchemadir
    \/ SetDatadir
    \/ CheckDestdir
    \/ PrintSchema
    \/ CallSchemas
    \/ ChildExit
    \/ ReturnSchemas
    \/ PrintIcons
    \/ CallIcons
    \/ ReturnIcons
    \/ OpenFile
    \/ MakeReader
    \/ NextRow
    \/ PrintRow

Spec == Init /\ [][Next]_vars

TypeOK ==
    /\ pc \in {"3", "4", "5", "6", "7", "8", "10", "11", "12", "12w", "13", "14", "14w",
               "end", "raised"}
    /\ exc \in {"None", "KeyError", "FileNotFoundError", "IndexError"}

(***************************************************************************)
(* Vocabulary of the properties.                                           *)
(***************************************************************************)
IsHook == script = "post_install"

IsConvert == script = "convert"

HasPrefix == MESON_INSTALL_PREFIX \in DOMAIN environ

Terminated == pc \in {"end", "raised"}

IsPrefixOf(s, t) == Len(s) <= Len(t) /\ \A i \in 1..Len(s) : s[i] = t[i]

IsCall(e) == e.kind = "call"

IsPrint(e) == e.kind = "print"

IsPrintOrCall(e) == e.kind \in {"print", "call"}

Calls == SelectSeq(events, IsCall)

Prints == SelectSeq(events, IsPrint)

PrintsAndCalls == SelectSeq(events, IsPrintOrCall)

\* 'share/icons/hicolor'
IconsHicolorRel == <<"s","h","a","r","e","/","i","c","o","n","s","/",
                     "h","i","c","o","l","o","r">>

\* <prefix>/<rel>, textually
SlashPath(pre, rel) == pre \o <<"/">> \o rel

\* <prefix>/<rel> with the separator left out after an empty prefix or a
\* prefix that already ends in one
JoinedPath(pre, rel) ==
    IF pre = <<>> THEN rel
    ELSE IF pre[Len(pre)] = "/" THEN pre \o rel
    ELSE SlashPath(pre, rel)

SchemaCall(dir) == CallEv(<<GlibCompileSchemas, dir>>)

IconsCall(dir) == CallEv(<<GtkUpdateIconCache, FlagQtf, dir>>)

Unstaged == IsHook /\ HasPrefix /\ ~EnvTruthy(DESTDIR)

C1_ExpectedCalls ==
    << SchemaCall(JoinedPath(environ[MESON_INSTALL_PREFIX], SchemasRel)),
       IconsCall(JoinedPath(environ[MESON_INSTALL_PREFIX], IconsHicolorRel)) >>

C2_StagedNoSideEffects ==
    (IsHook /\ EnvTruthy(DESTDIR)) => (events = <<>> /\ running = {})

C2_Witness ==
    IsHook /\ HasPrefix /\ EnvTruthy(DESTDIR) /\ pc = "end" /\ exc = "None"

(***************************************************************************)
(* C3: without MESON_INSTALL_PREFIX the run is either still at its first   *)
(* statement or has raised KeyError, and in both cases nothing has been    *)
(* printed or invoked, whatever DESTDIR is.                                *)
(***************************************************************************)
C3_MissingPrefixIsFatalFirst ==
    (IsHook /\ ~HasPrefix)
      => /\ events = <<>> /\ running = {}
         /\ pc = "6" \/ (pc = "raised" /\ exc = "KeyError")

C3_Witness ==
    IsHook /\ ~HasPrefix /\ EnvTruthy(DESTDIR) /\ pc = "raised" /\ exc = "KeyError"


(***************************************************************************)
(* Vocabulary of the converter's properties.                               *)
(***************************************************************************)
WellFormed(r) == Len(r) >= 2

\* map["<field 1 upper-cased>"] = _("<field 0>");
ExpectedLine(r) ==
    <<"m","a","p","[","\"">> \o upper(r[2]) \o <<"\"","]"," ","="," ","_","(","\"">>
      \o r[1] \o <<"\"",")",";">>

\* rows the loop has taken from the reader so far
Consumed == Len(csvfile.rows) - Len(countries)

\* index of the first malformed row, or 0
FirstMalformed ==
    IF \E i \in 1..Len(csvfile.rows) : ~WellFormed(csvfile.rows[i])
      THEN CHOOSE i \in 1..Len(csvfile.rows) :
             /\ ~WellFormed(csvfile.rows[i])
             /\ \A j \in 1..(i - 1) : WellFormed(csvfile.rows[j])
      ELSE 0

\* the output is the expected line of each of the first n rows, in order
OutputIsLinesOfFirst(n) ==
    /\ Len(events) = n
    /\ \A i \in 1..n : events[i] = PrintEv(ExpectedLine(csvfile.rows[i]))

(***************************************************************************)
(* C4: for a file of well-formed rows only, the output always consists of  *)
(* the line map["<field 1 upper-cased>"] = _("<field 0>"); of each row     *)
(* printed so far, in row order, and at the normal end of the run there is *)
(* exactly one line per row; the run never raises.                         *)
(***************************************************************************)
C4_OneLinePerRowInOrder ==
    (IsConvert /\ csvfile.exists /\ \A i \in 1..Len(csvfile.rows) : WellFormed(csvfile.rows[i]))
      => /\ exc = "None"
         /\ pc \in {"3", "4"} => events = <<>>
         /\ pc = "5" => OutputIsLinesOfFirst(Consumed)
         /\ pc = "6" => OutputIsLinesOfFirst(Consumed - 1)
         /\ pc = "end" => OutputIsLinesOfFirst(Len(csvfile.rows))

\* three rows, the first two equal, one with a third field and an embedded quote
C4_Witness ==
    /\ IsConvert /\ pc = "end"
    /\ Len(csvfile.rows) = 3
    /\ csvfile.rows[1] = csvfile.rows[2]
    /\ csvfile.rows[3] = << <<"f","\"">>, <<"f","\"">>, ExtraField >>
    /\ Len(events) = 3

(***************************************************************************)
(* C5: if the file has a row with fewer than two fields, the output never  *)
(* goes beyond the lines of the rows before the first such row, the run    *)
(* never ends normally, and once it has raised it has raised IndexError    *)
(* with exactly those lines printed.                                       *)
(***************************************************************************)
C5_FirstMalformedRowAborts ==
    (IsConvert /\ csvfile.exists /\ FirstMalformed > 0)
      => /\ pc # "end"
         /\ Len(events) < FirstMalformed
         /\ OutputIsLinesOfFirst(Len(events))
         /\ pc = "raised" => (exc = "IndexError" /\ OutputIsLinesOfFirst(FirstMalformed - 1))

\* a well-formed row, a one-field row, a well-formed row
C5_Witness ==
    /\ IsConvert /\ pc = "raised" /\ exc = "IndexError"
    /\ Len(csvfile.rows) = 3
    /\ FirstMalformed = 2
    /\ Len(csvfile.rows[2]) = 1
    /\ WellFormed(csvfile.rows[3])
    /\ Len(events) = 1

(***************************************************************************)
(* Vocabulary of the hook's run traces.                                    *)
(***************************************************************************)
SchemaArgv == <<GlibCompileSchemas, JoinedPath(environ[MESON_INSTALL_PREFIX], SchemasRel)>>

IconsArgv == <<GtkUpdateIconCache, FlagQtf,
               JoinedPath(environ[MESON_INSTALL_PREFIX], IconsHicolorRel)>>

\* progress messages and invocations of a finished unstaged run, as a
\* function of the prefix and the search path only
UnstagedTrace ==
    IF GlibCompileSchemas \notin path
      THEN << PrintEv(MsgSchema), CallEv(SchemaArgv) >>
      ELSE << PrintEv(MsgSchema), CallEv(SchemaArgv), PrintEv(MsgIcons), CallEv(IconsArgv) >>

HasExit(argv) == \E i \in 1..Len(events) : events[i].kind = "exit" /\ events[i].argv = argv

HasFailedExit(argv) ==
    \E i \in 1..Len(events) :
        events[i].kind = "exit" /\ events[i].argv = argv /\ events[i].status # 0

HasEvent(e) == \E i \in 1..Len(events) : events[i] = e

(***************************************************************************)
(* C6: with a valid prefix, a finished run with DESTDIR set to the empty   *)
(* string has printed and invoked exactly what a finished run with DESTDIR *)
(* unset prints and invokes: in both, the sequence of messages and         *)
(* invocations is the same function of the prefix and the search path.     *)
(***************************************************************************)
C6_EmptyDestdirLikeUnset ==
    (IsHook /\ HasPrefix /\ Terminated
       /\ (DESTDIR \notin DOMAIN environ \/ environ[DESTDIR] = <<>>))
      => PrintsAndCalls = UnstagedTrace

C6_Witness ==
    /\ IsHook /\ HasPrefix /\ pc = "end"
    /\ DESTDIR \in DOMAIN environ /\ environ[DESTDIR] = <<>>
    /\ Len(PrintsAndCalls) = 4

(***************************************************************************)
(* C7 as stated: whenever DESTDIR is present, whatever its value, the run  *)
(* invokes no external command.                                            *)
(***************************************************************************)
C7_AsStated ==
    (IsHook /\ DESTDIR \in DOMAIN environ) => (Calls = <<>> /\ running = {})

(***************************************************************************)
(* C7 amended: the value decides, not the presence.  A finished run with   *)
(* DESTDIR present and non-empty has done nothing, and its outcome depends *)
(* only on whether the prefix is set; a run with a valid prefix and        *)
(* DESTDIR present but empty does not take the skip branch: when it is     *)
(* finished it has invoked the schema compiler.                            *)
(***************************************************************************)
C7_ValueNotPresenceDecides ==
    /\ (IsHook /\ EnvTruthy(DESTDIR) /\ Terminated)
         => /\ events = <<>>
            /\ HasPrefix => (pc = "end" /\ exc = "None")
            /\ ~HasPrefix => (pc = "raised" /\ exc = "KeyError")
    /\ (IsHook /\ HasPrefix /\ DESTDIR \in DOMAIN environ /\ environ[DESTDIR] = <<>>
          /\ Terminated)
         => HasEvent(CallEv(SchemaArgv))

C7_Witness ==
    /\ IsHook /\ HasPrefix /\ pc = "end"
    /\ DESTDIR \in DOMAIN environ /\ environ[DESTDIR] = <<>>
    /\ HasExit(SchemaArgv) /\ HasExit(IconsArgv)

(***************************************************************************)
(* C8: exit statuses are not checked.  In an unstaged run, once the schema *)
(* compiler has exited the hook can go on, whatever the status; a          *)
(* finished run in which the schema compiler exited non-zero has printed   *)
(* the icon-cache message and invoked the icon-cache updater; and a        *)
(* finished run in which both tools exited ended normally.                 *)
(***************************************************************************)
C8_ExitStatusIgnored ==
    Unstaged
      => /\ (pc = "12w" /\ returncode # NoStatus) => ENABLED ReturnSchemas
         /\ (pc = "14w" /\ returncode # NoStatus) => ENABLED ReturnIcons
         /\ (Terminated /\ HasFailedExit(SchemaArgv))
              => (HasEvent(PrintEv(MsgIcons)) /\ HasEvent(CallEv(IconsArgv)))
         /\ (Terminated /\ HasExit(SchemaArgv) /\ HasExit(IconsArgv))
              => (pc = "end" /\ exc = "None")

C8_Witness ==
    /\ Unstaged /\ pc = "end" /\ exc = "None"
    /\ HasFailedExit(SchemaArgv) /\ HasFailedExit(IconsArgv)

(***************************************************************************)
(* C9: a missing program aborts the run at its call.  In an unstaged run   *)
(* without the schema compiler on the search path the hook never gets past *)
(* line 12, and when finished it has raised FileNotFoundError having       *)
(* printed only the first message and never invoked the icon-cache         *)
(* updater; with only the icon-cache updater missing, a finished run has   *)
(* raised FileNotFoundError after the schema compiler ran and exited.      *)
(***************************************************************************)
C9_MissingProgramAborts ==
    /\ (Unstaged /\ GlibCompileSchemas \notin path)
         => /\ pc \notin {"12w", "13", "14", "14w", "end"}
            /\ ~HasEvent(CallEv(IconsArgv))
            /\ Terminated => (pc = "raised" /\ exc = "FileNotFoundError"
                               /\ Prints = << PrintEv(MsgSchema) >>)
    /\ (Unstaged /\ GlibCompileSchemas \in path /\ GtkUpdateIconCache \notin path)
         => /\ pc \notin {"14w", "end"}
            /\ Terminated => (pc = "raised" /\ exc = "FileNotFoundError"
                               /\ HasExit(SchemaArgv) /\ ~HasExit(IconsArgv))

C9_Witness ==
    /\ Unstaged /\ path = {GlibCompileSchemas}
    /\ pc = "raised" /\ exc = "FileNotFoundError"
    /\ HasExit(SchemaArgv)

\* an event without its exit status
Shape(e) == <<e.kind, e.text, e.argv>>

ShapeOf(es) == [i \in 1..Len(es) |-> Shape(es[i])]

UnstagedOrder ==
    << <<"print", MsgSchema, <<>> >>,
       <<"call", <<>>, SchemaArgv>>,
       <<"exit", <<>>, SchemaArgv>>,
       <<"print", MsgIcons, <<>> >>,
       <<"call", <<>>, IconsArgv>>,
       <<"exit", <<>>, IconsArgv>> >>

(***************************************************************************)
(* C10: in an unstaged run the events so far are always an initial part of *)
(* schema message, schema-compiler invocation, schema-compiler exit,       *)
(* icon-cache message, icon-cache updater invocation, icon-cache updater   *)
(* exit; at most one tool runs at a time, and a run that ended normally    *)
(* has produced all six.                                                   *)
(***************************************************************************)
C10_EventOrder ==
    Unstaged
      => /\ IsPrefixOf(ShapeOf(events), UnstagedOrder)
         /\ Cardinality(running) <= 1
         /\ pc = "end" => Len(events) = 6

C10_Witness ==
    /\ Unstaged /\ pc = "end" /\ Len(events) = 6 /\ running = {}

=============================================================================
